---- MODULE Spec2Model ----
(***************************************************************************)
(* The Rias research assistant client: the App controller of              *)
(* generationService.ts (job submission, upload, the setInterval poll     *)
(* loop, the result-tree fetch, file selection) together with the UI      *)
(* guards of UploadView / MainContent / Sidebar that decide which         *)
(* handlers the user can reach, and the archive builder of zipService.ts. *)
(*                                                                         *)
(* Asynchronous work is modelled as requests in flight: each await of the *)
(* code is a point where any other event of the event loop may run.       *)
(***************************************************************************)
EXTENDS Naturals, Integers, Sequences, FiniteSets, TLC

\* ------------------------------------------------------------------ bounds
\* Number of handleGenerate invocations explored.
MaxJobs == 3
\* /status requests and tree fetches that may be in flight at once (over all
\* jobs); a tick that would exceed it is not explored.
MaxInFlight == 2
\* Root nodes of a forest handed to downloadResultsAsZip, and children of a folder.
MaxRoots == 2
MaxChildren == 2
\* Characters of a sheet cell handed to convertXlsxToCsv.
MaxCellLen == 2

\* ------------------------------------------------------------- environment
Jobs == 1..MaxJobs
\* The backend names every upload it accepts with a fresh session id.
SessionNames == <<"s1", "s2", "s3", "s4", "s5", "s6">>
SessionId(j) == SessionNames[j]
ResultPaths == {"s1/out/report.docx"}
\* error.message of a rejected uploadAndProcessFile
UploadErrorMessages == {"Invalid file type", "HTTP error! status: 500"}

\* --------------------------------------------------------------- constants
NULL == "null"
\* pollInterval = null (timer handles are the positive job numbers)
NoTimer == 0
API_BASE_URL == "http://localhost:8000"

MsgUploading == "Uploading file..."
MsgComplete == "Processing complete!"
MsgProcessing(session_id) == "Processing... (Job ID: " \o session_id \o ")"
ErrPoll == "Error checking job status. Please try again."
ErrTree == "Processing complete, but failed to load results tree."
ErrUpload(message) == "Upload failed: " \o message

getDownloadUrl(sessionId) == API_BASE_URL \o "/download-result/" \o sessionId

\* Bodies the tree URL may answer with: a FileTree[] array, or some other JSON
\* value (for instance the backend's {detail: ...} error object).
TreeData == "tree"
OtherJson == "other_json"
\* Ways the tree fetch may throw: fetch rejects, or response.json() rejects.
TreeFailures == {"network_error", "not_json"}

VARIABLES
    uploadedFiles,   \* useState<File[]>
    isLoading,       \* useState(false)
    error,           \* useState<string | null>
    fileTree,        \* useState<FileTree[] | null>
    statusMessage,   \* useState<string | null>
    downloadUrl,     \* useState<string | null>
    selectedFile,    \* useState<string | null>
    pollInterval,    \* the module-level timer handle
    timers,          \* handles of the setInterval timers that are live
    nextJob,         \* number of the next handleGenerate invocation
    uploads,         \* invocations awaiting uploadAndProcessFile
    sessionOf,       \* session_id bound in the closure of each invocation
    statusInFlight,  \* checkJobStatus calls awaiting their response, per invocation
    treeInFlight,    \* tree fetches awaiting their response, per invocation
    currentJob,      \* history: invocation started by the last submit, 0 after a reset
    zipInput,        \* TreeNode[] handed to downloadResultsAsZip
    zipFiles,        \* JSZip's files map: path -> content
    zipDone,         \* downloadResultsAsZip has run
    csvData,         \* string[][] handed to convertXlsxToCsv
    csvText,         \* the string it returned
    csvDone,         \* convertXlsxToCsv has run
    httpResponse,    \* what fetch gave uploadAndProcessFile or checkJobStatus
    httpOutcome      \* what the function returned or threw

uiVars == <<uploadedFiles, isLoading, error, fileTree, statusMessage, downloadUrl, selectedFile>>
jobVars == <<pollInterval, timers, nextJob, uploads, sessionOf, statusInFlight, treeInFlight, currentJob>>
zipVars == <<zipInput, zipFiles, zipDone>>
csvVars == <<csvData, csvText, csvDone>>
httpVars == <<httpResponse, httpOutcome>>
vars == <<uiVars, jobVars, zipVars, csvVars, httpVars>>

RECURSIVE SumUpTo(_, _)
SumUpTo(f, n) == IF n = 0 THEN 0 ELSE f[n] + SumUpTo(f, n - 1)
\* Requests in flight over all invocations.
InFlight(f) == SumUpTo(f, MaxJobs)

\* clearInterval(pollInterval) behind `if (pollInterval)`: the handle itself is
\* kept, only the timer it names stops.
clearInterval(handle) == IF handle # NoTimer THEN timers \ {handle} ELSE timers

\* Selections the FileUploader can hand to onFilesChange from a drop or the
\* file input: never empty.
Selections == {<<"paper.pdf">>}

\* handleRemoveFile: newFiles.splice(index, 1)
RemoveAt(files, index) ==
    SubSeq(files, 1, index - 1) \o SubSeq(files, index + 1, Len(files))

Init ==
    /\ uploadedFiles = <<>>
    /\ isLoading = FALSE
    /\ error = NULL
    /\ fileTree = NULL
    /\ statusMessage = NULL
    /\ downloadUrl = NULL
    /\ selectedFile = NULL
    /\ pollInterval = NoTimer
    /\ timers = {}
    /\ nextJob = 1
    /\ uploads = {}
    /\ sessionOf = [j \in Jobs |-> NULL]
    /\ statusInFlight = [j \in Jobs |-> 0]
    /\ treeInFlight = [j \in Jobs |-> 0]
    /\ currentJob = 0
    /\ zipInput = <<>>
    /\ zipFiles = <<>>
    /\ zipDone = FALSE
    /\ csvData = <<>>
    /\ csvText = <<>>
    /\ csvDone = FALSE
    /\ httpResponse = <<>>
    /\ httpOutcome = <<>>

\* ------------------------------------------------------------ UI guards
\* MainContent renders UploadView (with the FileUploader) only while no file
\* is selected for preview.
UploadViewShown == selectedFile = NULL

\* UploadView with the Generate button rendered whatever downloadUrl is.
GenerateEnabledAlways ==
    /\ UploadViewShown
    /\ ~(isLoading \/ Len(uploadedFiles) = 0)

\* UploadView renders the Generate button only while downloadUrl is null and
\* disables it while loading or without files.
GenerateEnabled ==
    /\ UploadViewShown
    /\ downloadUrl = NULL
    /\ ~(isLoading \/ Len(uploadedFiles) = 0)

\* A sidebar that shows file nodes whatever fileTree is.
TreeRenderedAlways == TRUE

\* Sidebar renders file nodes only for a non-empty array.
TreeRendered == fileTree = TreeData

\* ------------------------------------------------------------ handlers
ResetState(files) ==
    /\ uploadedFiles' = files
    /\ downloadUrl' = NULL
    /\ error' = NULL
    /\ statusMessage' = NULL
    /\ fileTree' = NULL
    /\ selectedFile' = NULL
    /\ timers' = clearInterval(pollInterval)
    /\ UNCHANGED isLoading

handleFilesChange(files) ==
    /\ UploadViewShown
    /\ ResetState(files)
    /\ currentJob' = 0
    /\ UNCHANGED <<pollInterval, nextJob, uploads, sessionOf, statusInFlight, treeInFlight>>
    /\ UNCHANGED <<zipVars, csvVars, httpVars>>

SelectFiles == \E files \in Selections : handleFilesChange(files)

handleRemoveFile ==
    \E index \in 1..Len(uploadedFiles) : handleFilesChange(RemoveAt(uploadedFiles, index))

handleFileClick(path) ==
    /\ TreeRendered
    /\ selectedFile' = path
    /\ UNCHANGED <<uploadedFiles, isLoading, error, fileTree, statusMessage, downloadUrl>>
    /\ UNCHANGED <<jobVars, zipVars, csvVars, httpVars>>

FileClick == \E path \in ResultPaths : handleFileClick(path)

\* A close handler that also resets the job, as handleFilesChange does.
handleCloseViewerAndReset ==
    /\ selectedFile # NULL
    /\ ResetState(uploadedFiles)
    /\ UNCHANGED <<pollInterval, nextJob, uploads, sessionOf, statusInFlight, treeInFlight, currentJob>>
    /\ UNCHANGED <<zipVars, csvVars, httpVars>>

handleCloseViewer ==
    /\ selectedFile # NULL
    /\ selectedFile' = NULL
    /\ UNCHANGED <<uploadedFiles, isLoading, error, fileTree, statusMessage, downloadUrl>>
    /\ UNCHANGED <<jobVars, zipVars, csvVars, httpVars>>

\* handleGenerate up to its first await: the reset of the UI and the start of
\* the upload.
SubmitState ==
    /\ isLoading' = TRUE
    /\ statusMessage' = MsgUploading
    /\ downloadUrl' = NULL
    /\ error' = NULL
    /\ fileTree' = NULL
    /\ selectedFile' = NULL
    /\ timers' = clearInterval(pollInterval)
    /\ uploads' = uploads \cup {nextJob}

handleGenerate ==
    /\ GenerateEnabled
    /\ Len(uploadedFiles) > 0
    /\ nextJob <= MaxJobs
    /\ SubmitState
    /\ nextJob' = nextJob + 1
    /\ currentJob' = nextJob
    /\ UNCHANGED <<uploadedFiles, pollInterval, sessionOf, statusInFlight, treeInFlight>>
    /\ UNCHANGED <<zipVars, csvVars, httpVars>>

\* What the continuation after `await uploadAndProcessFile(file)` does.
StartPolling(j, session_id) ==
    /\ statusMessage' = MsgProcessing(session_id)
    /\ timers' = timers \cup {j}
    /\ pollInterval' = j

UploadResolved(j, session_id) ==
    /\ j \in uploads
    /\ uploads' = uploads \ {j}
    /\ sessionOf' = [sessionOf EXCEPT ![j] = session_id]
    /\ StartPolling(j, session_id)
    /\ UNCHANGED <<uploadedFiles, isLoading, error, fileTree, downloadUrl, selectedFile>>
    /\ UNCHANGED <<nextJob, statusInFlight, treeInFlight, currentJob>>
    /\ UNCHANGED <<zipVars, csvVars, httpVars>>

UploadOk == \E j \in Jobs : UploadResolved(j, SessionId(j))

UploadRejected(j, message) ==
    /\ j \in uploads
    /\ uploads' = uploads \ {j}
    /\ isLoading' = FALSE
    /\ error' = ErrUpload(message)
    /\ UNCHANGED <<uploadedFiles, fileTree, statusMessage, downloadUrl, selectedFile>>
    /\ UNCHANGED <<pollInterval, timers, nextJob, sessionOf, statusInFlight, treeInFlight, currentJob>>
    /\ UNCHANGED <<zipVars, csvVars, httpVars>>

UploadFail == \E j \in Jobs, message \in UploadErrorMessages : UploadRejected(j, message)

\* One firing of the interval callback up to its await: checkJobStatus(session_id)
\* is issued whether or not an earlier call is still pending.
PollTick(j) ==
    /\ j \in timers
    /\ InFlight(statusInFlight) + InFlight(treeInFlight) < MaxInFlight
    /\ statusInFlight' = [statusInFlight EXCEPT ![j] = @ + 1]
    /\ UNCHANGED uiVars
    /\ UNCHANGED <<pollInterval, timers, nextJob, uploads, sessionOf, treeInFlight, currentJob>>
    /\ UNCHANGED <<zipVars, csvVars, httpVars>>

Tick == \E j \in Jobs : PollTick(j)

\* The branch statusResult.status === 'complete' up to the tree fetch.
JobDone(j) ==
    /\ timers' = clearInterval(pollInterval)
    /\ isLoading' = FALSE
    /\ statusMessage' = MsgComplete
    /\ downloadUrl' = getDownloadUrl(sessionOf[j])

StatusComplete(j, tree_url) ==
    /\ statusInFlight[j] > 0
    /\ statusInFlight' = [statusInFlight EXCEPT ![j] = @ - 1]
    /\ JobDone(j)
    /\ treeInFlight' = [treeInFlight EXCEPT ![j] = IF tree_url THEN @ + 1 ELSE @]
    /\ UNCHANGED <<uploadedFiles, error, fileTree, selectedFile>>
    /\ UNCHANGED <<pollInterval, nextJob, uploads, sessionOf, currentJob>>
    /\ UNCHANGED <<zipVars, csvVars, httpVars>>

StatusDone == \E j \in Jobs, tree_url \in BOOLEAN : StatusComplete(j, tree_url)

StatusProcessing(j) ==
    /\ statusInFlight[j] > 0
    /\ statusInFlight' = [statusInFlight EXCEPT ![j] = @ - 1]
    /\ statusMessage' = MsgProcessing(sessionOf[j])
    /\ UNCHANGED <<uploadedFiles, isLoading, error, fileTree, downloadUrl, selectedFile>>
    /\ UNCHANGED <<pollInterval, timers, nextJob, uploads, sessionOf, treeInFlight, currentJob>>
    /\ UNCHANGED <<zipVars, csvVars, httpVars>>

StatusPending == \E j \in Jobs : StatusProcessing(j)

\* catch (pollError)
PollFailed ==
    /\ timers' = clearInterval(pollInterval)
    /\ isLoading' = FALSE
    /\ error' = ErrPoll

StatusRejected(j) ==
    /\ statusInFlight[j] > 0
    /\ statusInFlight' = [statusInFlight EXCEPT ![j] = @ - 1]
    /\ PollFailed
    /\ UNCHANGED <<uploadedFiles, fileTree, statusMessage, downloadUrl, selectedFile>>
    /\ UNCHANGED <<pollInterval, nextJob, uploads, sessionOf, treeInFlight, currentJob>>
    /\ UNCHANGED <<zipVars, csvVars, httpVars>>

StatusFail == \E j \in Jobs : StatusRejected(j)

\* `await treeResponse.json()` resolved: whatever JSON came back is stored.
TreeResolved(j, treeData) ==
    /\ treeInFlight[j] > 0
    /\ treeInFlight' = [treeInFlight EXCEPT ![j] = @ - 1]
    /\ fileTree' = treeData
    /\ UNCHANGED <<uploadedFiles, isLoading, error, statusMessage, downloadUrl, selectedFile>>
    /\ UNCHANGED <<pollInterval, timers, nextJob, uploads, sessionOf, statusInFlight, currentJob>>
    /\ UNCHANGED <<zipVars, csvVars, httpVars>>

TreeOk == \E j \in Jobs, treeData \in {TreeData, OtherJson} : TreeResolved(j, treeData)

\* catch (treeError)
TreeRejected(j, failure) ==
    /\ treeInFlight[j] > 0
    /\ treeInFlight' = [treeInFlight EXCEPT ![j] = @ - 1]
    /\ error' = ErrTree
    /\ UNCHANGED <<uploadedFiles, isLoading, fileTree, statusMessage, downloadUrl, selectedFile>>
    /\ UNCHANGED <<pollInterval, timers, nextJob, uploads, sessionOf, statusInFlight, currentJob>>
    /\ UNCHANGED <<zipVars, csvVars, httpVars>>

TreeFail == \E j \in Jobs, failure \in TreeFailures : TreeRejected(j, failure)

Next ==
    \/ SelectFiles
    \/ handleRemoveFile
    \/ FileClick
    \/ handleCloseViewer
    \/ handleGenerate
    \/ UploadOk
    \/ UploadFail
    \/ Tick
    \/ StatusDone
    \/ StatusPending
    \/ StatusFail
    \/ TreeOk
    \/ TreeFail

Spec == Init /\ [][Next]_vars

\* Scheduling of what the user does not drive: a pending upload resolves, a
\* live interval keeps firing, every request in flight is answered, and the
\* backend does not answer 'processing' forever.
Fairness ==
    /\ WF_vars(UploadOk \/ UploadFail)
    /\ WF_vars(Tick)
    /\ WF_vars(StatusDone \/ StatusPending \/ StatusFail)
    /\ SF_vars(StatusDone \/ StatusFail)
    /\ WF_vars(TreeOk \/ TreeFail)

SpecFair == Init /\ [][Next]_vars /\ Fairness

\* ------------------------------------------------------------ archive builder
\* File and folder names are sequences of segments; String.replace(a, b)
\* rewrites the first occurrence of a.
RECURSIVE replace(_, _, _)
replace(name, pattern, replacement) ==
    IF name = <<>> THEN <<>>
    ELSE IF Head(name) = pattern THEN <<replacement>> \o Tail(name)
    ELSE <<Head(name)>> \o replace(Tail(name), pattern, replacement)

\* A replace that leaves the quotes as they are.
KeepQuotes(cell) == cell

\* cell.replace(/"/g, '""') on a cell given as its sequence of characters
RECURSIVE DoubleQuotes(_)
DoubleQuotes(cell) ==
    IF cell = <<>> THEN <<>>
    ELSE (IF Head(cell) = "\"" THEN <<"\"", "\"">> ELSE <<Head(cell)>>) \o DoubleQuotes(Tail(cell))

RECURSIVE Join(_, _)
Join(parts, separator) ==
    IF parts = <<>> THEN <<>>
    ELSE IF Len(parts) = 1 THEN parts[1]
    ELSE parts[1] \o separator \o Join(Tail(parts), separator)

\* A cell that is null or undefined (no string holds the segment NULL).
NullCell == <<NULL>>
\* (cell ?? '').toString()
CellText(cell) == IF cell = NullCell THEN <<>> ELSE cell

\* `"${...replace(/"/g, '""')}"`
QuoteCell(cell) == <<"\"">> \o DoubleQuotes(CellText(cell)) \o <<"\"">>

convertXlsxToCsv(data) ==
    Join([r \in 1..Len(data) |->
            Join([c \in 1..Len(data[r]) |-> QuoteCell(data[r][c])], <<",">>)],
         <<"\n">>)

convertPptxToText(slides) ==
    Join([i \in 1..Len(slides) |->
            <<"Slide ", ToString(i), ": ", slides[i].title, "\n", slides[i].content, "\n\n">>],
         <<"----------------------------------------\n">>)

\* The switch on file.type: the entry's name and content.
EntryName(file) ==
    CASE file.type = "docx" -> replace(file.name, ".docx", ".html")
      [] file.type = "pptx" -> replace(file.name, ".pptx", ".txt")
      [] file.type = "xlsx" -> replace(file.name, ".xlsx", ".csv")
      [] OTHER -> file.name

EntryContent(file) ==
    CASE file.type = "docx" -> file.content
      [] file.type = "pptx" -> convertPptxToText(file.content)
      [] file.type = "xlsx" -> convertXlsxToCsv(file.content)
      [] OTHER -> <<>>

\* JSZip keeps one entry per name: a folder under "path/", a file under "path".
ZipKey(root, name, dir) == <<root \o <<name>>, dir>>
\* zip.file(name, content): a later entry of the same name replaces the earlier.
ZipFile(files, root, name, content) ==
    (ZipKey(root, name, FALSE) :> [dir |-> FALSE, content |-> content]) @@ files
\* zip.folder(name): the folder's entry; the object returned has root/name as root.
ZipFolder(files, root, name) ==
    (ZipKey(root, name, TRUE) :> [dir |-> TRUE, content |-> <<>>]) @@ files

RECURSIVE addNodeToZip(_, _, _)
RECURSIVE addNodesToZip(_, _, _)
addNodeToZip(files, root, node) ==
    IF node.type = "folder"
    THEN addNodesToZip(ZipFolder(files, root, node.name), root \o <<node.name>>, node.children)
    ELSE IF node.type = "file" /\ node.fileData # <<>>
    THEN ZipFile(files, root, EntryName(node.fileData[1]), EntryContent(node.fileData[1]))
    ELSE files

\* nodes.forEach(child => addNodeToZip(folder, child))
addNodesToZip(files, root, nodes) ==
    IF nodes = <<>> THEN files
    ELSE addNodesToZip(addNodeToZip(files, root, Head(nodes)), root, Tail(nodes))

downloadResultsAsZip ==
    /\ ~zipDone
    /\ zipFiles' = addNodesToZip(<<>>, <<>>, zipInput)
    /\ zipDone' = TRUE
    /\ UNCHANGED zipInput
    /\ UNCHANGED <<uiVars, jobVars, csvVars, httpVars>>

\* GeneratedFile values of the three types, and one whose name is already the
\* converted name of another.
GeneratedFiles ==
    { [name |-> <<"a", ".docx">>, type |-> "docx", content |-> <<"<p>x</p>">>],
      [name |-> <<"a", ".html">>, type |-> "docx", content |-> <<"<p>y</p>">>],
      [name |-> <<"a", ".pptx">>, type |-> "pptx",
       content |-> <<[title |-> "T", content |-> "c"]>>],
      [name |-> <<"a", ".xlsx">>, type |-> "xlsx", content |-> << << <<"1">>, <<"\"">> >> >>] }

FileNode(data) == [type |-> "file", name |-> <<"a">>, children |-> <<>>, fileData |-> data]
FolderNode(children) == [type |-> "folder", name |-> <<"out">>, children |-> children, fileData |-> <<>>]

SeqsUpTo(S, n) == UNION {[1..k -> S] : k \in 0..n}

\* File nodes with and without fileData; forests of them nested one folder deep.
FileNodes == {FileNode(<<>>)} \cup {FileNode(<<g>>) : g \in GeneratedFiles}
TreeNodes == FileNodes \cup {FolderNode(c) : c \in SeqsUpTo(FileNodes, MaxChildren)}
Forests == SeqsUpTo(TreeNodes, MaxRoots)

InitZip ==
    /\ uploadedFiles = <<>>
    /\ isLoading = FALSE
    /\ error = NULL
    /\ fileTree = NULL
    /\ statusMessage = NULL
    /\ downloadUrl = NULL
    /\ selectedFile = NULL
    /\ pollInterval = NoTimer
    /\ timers = {}
    /\ nextJob = 1
    /\ uploads = {}
    /\ sessionOf = [j \in Jobs |-> NULL]
    /\ statusInFlight = [j \in Jobs |-> 0]
    /\ treeInFlight = [j \in Jobs |-> 0]
    /\ currentJob = 0
    /\ zipInput \in Forests
    /\ zipFiles = <<>>
    /\ zipDone = FALSE
    /\ csvData = <<>>
    /\ csvText = <<>>
    /\ csvDone = FALSE
    /\ httpResponse = <<>>
    /\ httpOutcome = <<>>

NextZip == downloadResultsAsZip

SpecZip == InitZip /\ [][NextZip]_vars

\* ------------------------------------------------------------ CSV serialization
\* The controller as mounted, before any event.
Mounted ==
    /\ uploadedFiles = <<>>
    /\ isLoading = FALSE
    /\ error = NULL
    /\ fileTree = NULL
    /\ statusMessage = NULL
    /\ downloadUrl = NULL
    /\ selectedFile = NULL
    /\ pollInterval = NoTimer
    /\ timers = {}
    /\ nextJob = 1
    /\ uploads = {}
    /\ sessionOf = [j \in Jobs |-> NULL]
    /\ statusInFlight = [j \in Jobs |-> 0]
    /\ treeInFlight = [j \in Jobs |-> 0]
    /\ currentJob = 0

\* Sheet cells: strings over an alphabet with the quote, the comma and the
\* newline, and the null cell of a blank spreadsheet cell.
Chars == {"a", "\"", ",", "\n"}
Cells == SeqsUpTo(Chars, MaxCellLen) \cup {NullCell}

\* Row lengths of the sheets: no row, blank rows, one and two columns.
Shapes == {<<>>, <<0>>, <<1>>, <<2>>, <<1, 1>>, <<0, 1>>, <<1, 0>>, <<1, 0, 1>>}

RECURSIVE GridsOfShape(_)
GridsOfShape(shape) ==
    IF shape = <<>> THEN {<<>>}
    ELSE {<<row>> \o grid : row \in [1..Head(shape) -> Cells], grid \in GridsOfShape(Tail(shape))}

Grids == UNION {GridsOfShape(shape) : shape \in Shapes}

InitCsv ==
    /\ Mounted
    /\ zipInput = <<>>
    /\ zipFiles = <<>>
    /\ zipDone = FALSE
    /\ csvData \in Grids
    /\ csvText = <<>>
    /\ csvDone = FALSE
    /\ httpResponse = <<>>
    /\ httpOutcome = <<>>

\* case FileType.XLSX: content = convertXlsxToCsv(fileData.content as string[][])
ConvertXlsx ==
    /\ ~csvDone
    /\ csvText' = convertXlsxToCsv(csvData)
    /\ csvDone' = TRUE
    /\ UNCHANGED csvData
    /\ UNCHANGED <<uiVars, jobVars, zipVars, httpVars>>

NextCsv == ConvertXlsx

SpecCsv == InitCsv /\ [][NextCsv]_vars

\* ------------------------------------------------------------ API calls
\* What fetch resolves with: a status code and a body. A body is text that is
\* not JSON, the JSON null, or a JSON object whose detail is absent, a string
\* or (the backend's validation errors) a list of objects.
Undefined == "undefined"
DetailList == "detail_list"
NotJson == [json |-> FALSE, object |-> FALSE, detail |-> Undefined]
JsonNull == [json |-> TRUE, object |-> FALSE, detail |-> Undefined]
JsonObject(detail) == [json |-> TRUE, object |-> TRUE, detail |-> detail]
Details == {"Invalid file type", "Job not found", "", DetailList, Undefined}
Bodies == {NotJson, JsonNull} \cup {JsonObject(detail) : detail \in Details}
Statuses == {200, 201, 400, 404, 422, 500, 502, 503}
Responses == [rejected : {FALSE}, status : Statuses, body : Bodies]
\* fetch itself rejects (no connection): there is no response to read.
FetchFailed == [rejected |-> TRUE, status |-> 0, body |-> NotJson]

\* response.ok
ok(response) == response.status \in 200..299

\* The messages of the errors the runtime raises; their wording is the
\* engine's, none of it comes from the response status.
MsgFetchFailed == "Failed to fetch"
MsgSyntaxError == "Unexpected token < in JSON at position 0"
MsgTypeError == "Cannot read properties of null (reading 'detail')"
\* `HTTP error! status: ${response.status}`
MsgHttpError(status) == "HTTP error! status: " \o ToString(status)
\* new Error(message) keeps String(message).
MessageOf(detail) == IF detail = DetailList THEN "[object Object]" ELSE detail
\* detail is falsy: undefined or the empty string.
Falsy(detail) == detail \in {Undefined, ""}

Threw(message) == [threw |-> TRUE, message |-> message]
Returned == [threw |-> FALSE, message |-> NULL]

\* The try block of both functions, from the resolved fetch on: response.json()
\* rejects on a body that is not JSON, err.detail throws on null.
HandleResponse(response) ==
    IF response.rejected THEN Threw(MsgFetchFailed)
    ELSE IF ~response.body.json THEN Threw(MsgSyntaxError)
    ELSE IF ok(response) THEN Returned
    ELSE IF ~response.body.object THEN Threw(MsgTypeError)
    ELSE IF Falsy(response.body.detail) THEN Threw(MsgHttpError(response.status))
    ELSE Threw(MessageOf(response.body.detail))

InitHttp ==
    /\ Mounted
    /\ zipInput = <<>>
    /\ zipFiles = <<>>
    /\ zipDone = FALSE
    /\ csvData = <<>>
    /\ csvText = <<>>
    /\ csvDone = FALSE
    /\ httpResponse \in {<<response>> : response \in Responses \cup {FetchFailed}}
    /\ httpOutcome = <<>>

uploadAndProcessFile ==
    /\ httpOutcome = <<>>
    /\ httpOutcome' = <<[call |-> "uploadAndProcessFile", result |-> HandleResponse(httpResponse[1])]>>
    /\ UNCHANGED httpResponse
    /\ UNCHANGED <<uiVars, jobVars, zipVars, csvVars>>

checkJobStatus ==
    /\ httpOutcome = <<>>
    /\ httpOutcome' = <<[call |-> "checkJobStatus", result |-> HandleResponse(httpResponse[1])]>>
    /\ UNCHANGED httpResponse
    /\ UNCHANGED <<uiVars, jobVars, zipVars, csvVars>>

NextHttp ==
    \/ uploadAndProcessFile
    \/ checkJobStatus

SpecHttp == InitHttp /\ [][NextHttp]_vars

\* ------------------------------------------------------------ job states
\* The job state the UploadView shows: the spinner while loading, the download
\* link for downloadUrl && !isLoading, the error line for error && !isLoading.
JobState ==
    IF isLoading THEN (IF statusMessage = MsgUploading THEN "Uploading" ELSE "Processing")
    ELSE IF downloadUrl # NULL THEN "Complete"
    ELSE IF error # NULL THEN "Errored"
    ELSE "Idle"

\* A reset: onFilesChange called by the FileUploader.
ResetStep == SelectFiles \/ handleRemoveFile

\* The continuation of a network call of invocation j runs.
ResponseOf(j) ==
    \/ UploadResolved(j, SessionId(j))
    \/ \E message \in UploadErrorMessages : UploadRejected(j, message)
    \/ \E tree_url \in BOOLEAN : StatusComplete(j, tree_url)
    \/ StatusProcessing(j)
    \/ StatusRejected(j)
    \/ \E treeData \in {TreeData, OtherJson} : TreeResolved(j, treeData)
    \/ \E failure \in TreeFailures : TreeRejected(j, failure)

\* ------------------------------------------------------------ claims

\* C1: in every reachable state at most one setInterval poll timer is live.
C1_AtMostOneTimer == Cardinality(timers) <= 1

\* C2: from a reset until the next submit the controller is Idle: status
\* message, download URL and result tree are null and no poll timer is live
\* (so no timer becomes active and no status request is issued).
C2_ResetLeavesIdle ==
    currentJob = 0 =>
        /\ statusMessage = NULL
        /\ downloadUrl = NULL
        /\ fileTree = NULL
        /\ timers = {}

\* C3: the late completion of a network call issued for an earlier job (a
\* reset or a newer submit has happened since) changes none of statusMessage,
\* downloadUrl, fileTree, error, isLoading.
C3_StaleNeverOverwrites ==
    [][\A j \in Jobs :
          (j # currentJob /\ ResponseOf(j)) =>
              UNCHANGED <<statusMessage, downloadUrl, fileTree, error, isLoading>>]_vars

\* C4 as claimed: from Complete or Errored no step other than a reset changes
\* the job state.
C4_TerminalUpToReset ==
    [][(JobState \in {"Complete", "Errored"} /\ ~ResetStep) => JobState' = JobState]_vars

\* C4 as amended: from Complete (downloadUrl set, not loading) no step other
\* than a reset leaves Complete.
C4_CompleteUntilReset ==
    [][(JobState = "Complete" /\ ~ResetStep) => JobState' = "Complete"]_vars

\* C4 witness: a late poll failure was handled in Complete, which stayed Complete.
C4_Witness == JobState = "Complete" /\ error = ErrPoll

\* C5: when the first 'complete' answer of the current job (all earlier answers
\* were 'processing', the controller is still loading) carries a tree_url, no
\* other /status request of the job is outstanding or will be issued (exactly
\* k were issued), exactly one tree request is out, and downloadUrl is
\* getDownloadUrl of the upload's session id.
C5_ExactlyKPolls ==
    [][\A j \in Jobs :
          (currentJob = j /\ isLoading /\ StatusComplete(j, TRUE)) =>
              /\ statusInFlight'[j] = 0
              /\ j \notin timers'
              /\ treeInFlight'[j] = 1
              /\ downloadUrl' = getDownloadUrl(SessionId(j))]_vars

\* C6: when the tree fetch of the current job does not yield a result tree
\* (the fetch or the JSON parse throws, or the body is some other JSON), the
\* state is Complete with fileTree null, the advisory error set and polling
\* stopped.
C6_TreeFailureIsAdvisory ==
    [][\A j \in Jobs :
          (currentJob = j
              /\ (TreeResolved(j, OtherJson) \/ \E failure \in TreeFailures : TreeRejected(j, failure))) =>
              /\ JobState' = "Complete"
              /\ fileTree' = NULL
              /\ error' = ErrTree
              /\ j \notin timers']_vars

\* C7: when a poll of the current job answers 'complete' without tree_url, the
\* controller is Complete with fileTree null, error null and downloadUrl set,
\* and no tree request is issued.
C7_CompleteWithoutTree ==
    [][\A j \in Jobs :
          (currentJob = j /\ StatusComplete(j, FALSE)) =>
              /\ JobState' = "Complete"
              /\ downloadUrl' = getDownloadUrl(SessionId(j))
              /\ fileTree' = NULL
              /\ error' = NULL
              /\ treeInFlight' = treeInFlight]_vars

\* C8: when a poll of the current job fails while the controller is
\* Processing, the controller is Errored and no poll timer remains live.
C8_PollFailureStopsPolling ==
    [][\A j \in Jobs :
          (currentJob = j /\ JobState = "Processing" /\ StatusRejected(j)) =>
              /\ JobState' = "Errored"
              /\ error' = ErrPoll
              /\ timers' = {}]_vars

\* C9: while the upload of the current job is pending no poll timer is live;
\* timers and /status requests exist only for invocations whose upload
\* returned a session id; a failed upload leaves isLoading false and the
\* upload error message in error.
C9_PollingOnlyAfterUpload ==
    [][/\ \A j \in Jobs : (currentJob' = j /\ j \in uploads') => timers' = {}
       /\ \A j \in Jobs : sessionOf'[j] = NULL => (j \notin timers' /\ statusInFlight'[j] = 0)
       /\ \A j \in Jobs, message \in UploadErrorMessages :
              UploadRejected(j, message) =>
                  (~isLoading' /\ error' = ErrUpload(message) /\ j \notin timers')]_vars

\* File nodes of a forest that carry fileData, each with the path of its entry:
\* the names of the enclosing folders, then the converted file name.
RECURSIVE DataFiles(_, _)
DataFiles(root, nodes) ==
    IF nodes = <<>> THEN <<>>
    ELSE LET node == Head(nodes)
             here == IF node.type = "folder" THEN DataFiles(root \o <<node.name>>, node.children)
                     ELSE IF node.fileData # <<>> THEN <<root \o <<EntryName(node.fileData[1])>>>>
                     ELSE <<>>
         IN  here \o DataFiles(root, Tail(nodes))

FileEntries(files) == {key \in DOMAIN files : ~files[key].dir}

\* C10: the archive holds exactly one file entry per file node that carries
\* fileData, at the path of its enclosing folders, and none for a file node
\* without fileData.
C10_OneEntryPerDataFile ==
    zipDone =>
        LET expected == DataFiles(<<>>, zipInput)
        IN  /\ Cardinality(FileEntries(zipFiles)) = Len(expected)
            /\ {key[1] : key \in FileEntries(zipFiles)} = {expected[i] : i \in 1..Len(expected)}

\* A CSV decoder (RFC 4180): fields are separated by commas and records by
\* newlines; a field that opens with a quote runs to its closing quote, a
\* doubled quote inside it stands for one quote; a newline that ends the text
\* opens no further record. mode is "start" (at the start of a field), "plain",
\* "quoted" or "closed" (after a quote inside a quoted field); fresh says that
\* nothing of the current record has been read.
RECURSIVE Decode(_, _, _, _, _, _)
Decode(text, mode, fresh, field, row, rows) ==
    IF text = <<>> THEN (IF fresh THEN rows ELSE rows \o <<row \o <<field>>>>)
    ELSE LET ch == Head(text)
             rest == Tail(text)
         IN  IF mode = "quoted"
             THEN (IF ch = "\"" THEN Decode(rest, "closed", FALSE, field, row, rows)
                   ELSE Decode(rest, "quoted", FALSE, field \o <<ch>>, row, rows))
             ELSE IF ch = "\"" /\ mode = "start" THEN Decode(rest, "quoted", FALSE, field, row, rows)
             ELSE IF ch = "\"" /\ mode = "closed"
                  THEN Decode(rest, "quoted", FALSE, field \o <<ch>>, row, rows)
             ELSE IF ch = "," THEN Decode(rest, "start", FALSE, <<>>, row \o <<field>>, rows)
             ELSE IF ch = "\n"
                  THEN Decode(rest, "start", TRUE, <<>>, <<>>, rows \o <<row \o <<field>>>>)
             ELSE Decode(rest, "plain", FALSE, field \o <<ch>>, row, rows)

ParseCsv(text) == Decode(text, "start", TRUE, <<>>, <<>>, <<>>)

\* The strings a sheet holds: a null cell reads as the empty string.
Strings(data) == [r \in 1..Len(data) |-> [c \in 1..Len(data[r]) |-> CellText(data[r][c])]]

StringGrid(data) == \A r \in 1..Len(data) : \A c \in 1..Len(data[r]) : data[r][c] # NullCell

Quotes(cell) == Cardinality({i \in 1..Len(cell) : cell[i] = "\""})

\* The text of the cell at row r, column c, between its separators.
RowStart(data, r) == SumUpTo([i \in 1..Len(data) |->
                                 SumUpTo([c \in 1..Len(data[i]) |-> Len(QuoteCell(data[i][c])) + 1],
                                         Len(data[i]))
                                 + (IF Len(data[i]) = 0 THEN 1 ELSE 0)], r - 1)
FieldStart(data, r, c) ==
    RowStart(data, r) + SumUpTo([k \in 1..Len(data[r]) |-> Len(QuoteCell(data[r][k])) + 1], c - 1)

\* Every cell stands in the text wrapped in quotes, as long as its string plus
\* one character per embedded quote; a null cell stands as "".
EveryCellQuoted ==
    \A r \in 1..Len(csvData) : \A c \in 1..Len(csvData[r]) :
        LET cell == csvData[r][c]
            from == FieldStart(csvData, r, c) + 1
            size == Len(CellText(cell)) + Quotes(CellText(cell)) + 2
        IN  /\ from + size - 1 <= Len(csvText)
            /\ csvText[from] = "\""
            /\ csvText[from + size - 1] = "\""
            /\ Quotes(SubSeq(csvText, from + 1, from + size - 2)) = 2 * Quotes(CellText(cell))
            /\ cell = NullCell => size = 2

\* C11 as stated: every cell is emitted quoted with its quotes doubled, and a
\* CSV decoder returns every grid of string cells cell for cell.
C11_RoundTrip ==
    csvDone =>
        /\ EveryCellQuoted
        /\ StringGrid(csvData) => ParseCsv(csvText) = csvData

\* C11: every cell is emitted quoted with its quotes doubled, a null cell as
\* the empty quoted field, and a CSV decoder returns the strings of every grid
\* whose rows each hold at least one cell.
C11_RoundTripOfFilledRows ==
    csvDone =>
        /\ EveryCellQuoted
        /\ (\A r \in 1..Len(csvData) : Len(csvData[r]) > 0) => ParseCsv(csvText) = Strings(csvData)

C11_Witness ==
    /\ csvDone
    /\ Len(csvData) = 2
    /\ csvData[1] = <<<<"\"", ",">>>>
    /\ csvData[2] = <<<<"\n", "\"">>>>
    /\ ParseCsv(csvText) = csvData

\* The body carries a detail string.
HasDetail(body) == body.json /\ body.object /\ body.detail \notin {Undefined, DetailList, ""}

\* C12: both calls fail on every non-2xx response, with the detail string of
\* the body as the message when the body carries one and a message derived
\* from the status code otherwise, whether the body is JSON or not.
C12_ErrorMessage ==
    (httpOutcome # <<>> /\ ~httpResponse[1].rejected /\ ~ok(httpResponse[1])) =>
        /\ httpOutcome[1].result.threw
        /\ httpOutcome[1].result.message =
               IF HasDetail(httpResponse[1].body) THEN httpResponse[1].body.detail
               ELSE MsgHttpError(httpResponse[1].status)

\* C13: selecting a file of the tree and closing the viewer change only
\* selectedFile; the files, the loading flag, the messages, the link, the tree
\* and the poll timer stay as they are, whatever the job state.
C13_ViewerChangesOnlySelectedFile ==
    [][(FileClick \/ handleCloseViewer) =>
           /\ selectedFile' # selectedFile
           /\ UNCHANGED <<uploadedFiles, isLoading, error, statusMessage, downloadUrl, fileTree>>
           /\ UNCHANGED <<pollInterval, timers>>]_vars

\* A file is open in the viewer while a job is loading and a poll timer runs.
C13_Witness == selectedFile # NULL /\ isLoading /\ timers # {}

\* C14: isLoading is true only while a job is in progress: an upload request
\* is in flight or a poll timer is active.
C14_LoadingOnlyWhilePending == isLoading => (uploads # {} \/ timers # {})

\* C15: under fair scheduling of ticks and responses, every submitted job
\* eventually reaches a state with isLoading false and no active poll timer.
C15_EventuallyStopsPolling == isLoading ~> (~isLoading /\ timers = {})

====
